---- MODULE Spec2Model ----
(***************************************************************************)
(* A model of the CDP binding generator (build/generate.py) and of the     *)
(* code it emits (cdp/security.py is one emitted unit).                    *)
(*                                                                         *)
(* Identifiers and wire strings are sequences of one-character strings,    *)
(* so that the naming convention (inflection.underscore) is computed and   *)
(* not assumed.  Python's None for a string field is the string "None";    *)
(* an optional sub-object (CdpProperty.items) is a sequence of length 0    *)
(* or 1.  A Python dict is the sequence of its [k, v] entries in insertion *)
(* order.  Emitted code is kept as structured statements and expressions,  *)
(* and is run by the Eval operators below.                                 *)
(***************************************************************************)
EXTENDS Integers, Sequences, FiniteSets, TLC

VARIABLES
    mode,     \* which scenario runs: "idle" until one starts
    tpc,      \* position in the pipeline of one type: build, emit, use
    ctype,    \* the CdpType built from the raw schema record
    ccode,    \* what CdpType.generate_code returned (or the error it raised)
    inst,     \* an instance of the emitted class (constructed or deserialized)
    wire,     \* a wire map (serialized or received)
    back,     \* the result of the second half of a round trip
    cpc,      \* position in the pipeline of one command: build, emit, load
    cmd,      \* the CdpCommand built from the raw schema record
    fcode,    \* what CdpCommand.generate_code returned (or the error it raised)
    gen,      \* the generator object of one call of the emitted function
    sent,     \* the messages the generator has yielded, in order
    resumes,  \* how many times the driver has resumed the generator
    rpc,      \* position of a generation run (main)
    schemas,  \* the schema documents main reads, in the order of json_paths
    di,       \* the index of the document parse is reading
    bi,       \* the index of the next domain of that document to build
    ldomains, \* the local list "domains" of parse
    domains,  \* the list "domains" of main
    wi,       \* the index of the next domain whose module is written
    files,    \* the files of the output directory, by name
    rerr,     \* the exception that ended the run, or "ok"
    query,    \* a reference to resolve, and the domain that holds it
    answer    \* what ref_to_python returned for it (or the error it raised)

-----------------------------------------------------------------------------
(* Bounds *)

MaxProps == 3
MaxParams == 2
MaxReturns == 2
MaxDomains == 2
MaxVariants == 2

-----------------------------------------------------------------------------
(* Characters and the naming convention *)

Lowers == <<"a", "b", "c", "d", "e", "f">>
Uppers == <<"A", "B", "C", "D", "E", "F">>

IsUpper(c) == \E i \in 1..Len(Uppers) : Uppers[i] = c
IsLower(c) == \E i \in 1..Len(Lowers) : Lowers[i] = c

ToLower(c) ==
    IF IsUpper(c) THEN Lowers[CHOOSE i \in 1..Len(Uppers) : Uppers[i] = c]
    ELSE IF c = "-" THEN "_" ELSE c

ToUpper(c) ==
    IF IsLower(c) THEN Uppers[CHOOSE i \in 1..Len(Lowers) : Lowers[i] = c]
    ELSE c

RECURSIVE MapChars(_, _)
MapChars(w, up) ==
    IF w = <<>> THEN <<>>
    ELSE <<IF up THEN ToUpper(Head(w)) ELSE ToLower(Head(w))>>
         \o MapChars(Tail(w), up)

\* A word boundary of inflection.underscore lies before position i:
\* ([a-z\d])([A-Z]) or ([A-Z]+)([A-Z][a-z]).
BoundaryBefore(w, i) ==
    /\ i > 1
    /\ IsUpper(w[i])
    /\ \/ IsLower(w[i - 1])
       \/ IsUpper(w[i - 1]) /\ i < Len(w) /\ IsLower(w[i + 1])

RECURSIVE SplitWords(_, _)
SplitWords(w, i) ==
    IF i > Len(w) THEN <<>>
    ELSE (IF BoundaryBefore(w, i) THEN <<"_", w[i]>> ELSE <<w[i]>>)
         \o SplitWords(w, i + 1)

\* inflection.underscore: camelCase to snake_case
Underscore(w) == MapChars(SplitWords(w, 1), FALSE)

UpperAll(w) == MapChars(w, TRUE)

None == "None"

-----------------------------------------------------------------------------
(* Reference resolution *)

RECURSIVE CountDots(_)
CountDots(ref) ==
    IF ref = <<>> THEN 0
    ELSE (IF Head(ref) = "." THEN 1 ELSE 0) + CountDots(Tail(ref))

DotAt(ref) == CHOOSE i \in 1..Len(ref) : ref[i] = "."

\* "domain, subtype = ref.split('.')" unpacks into two names and raises
\* ValueError when the ref holds more than one dot.
SplitRef(ref, dots) ==
    IF dots = 0 THEN [status |-> "ok", name |-> ref]
    ELSE IF dots = 1
    THEN [status |-> "ok",
          name |-> Underscore(SubSeq(ref, 1, DotAt(ref) - 1))
                   \o SubSeq(ref, DotAt(ref), Len(ref))]
    ELSE [status |-> "ValueError"]

\* ref_to_python: [status, name]
ref_to_python(ref) == SplitRef(ref, CountDots(ref))

-----------------------------------------------------------------------------
(* IR: CdpItemType, CdpProperty, CdpType *)

\* A raw record has exactly the fields its JSON object has; record[key]
\* on a missing key raises KeyError, record.get(key) gives None.

\* CdpItemType.from_json
CdpItemTypeFromJson(raw) ==
    [type |-> IF "type" \in DOMAIN raw THEN raw.type ELSE None,
     ref |-> IF "ref" \in DOMAIN raw THEN raw.ref ELSE <<>>]

\* CdpProperty.from_json (ref <<>> is None, items <<>> is None)
CdpPropertyFromJson(raw) ==
    IF "name" \notin DOMAIN raw THEN [status |-> "KeyError"]
    ELSE
    [status |-> "ok",
     name |-> raw.name,
     description |-> IF "description" \in DOMAIN raw THEN raw.description ELSE None,
     type |-> IF "type" \in DOMAIN raw THEN raw.type ELSE None,
     ref |-> IF "ref" \in DOMAIN raw THEN raw.ref ELSE <<>>,
     items |-> IF "items" \in DOMAIN raw
               THEN <<CdpItemTypeFromJson(raw.items)>> ELSE <<>>,
     optional |-> IF "optional" \in DOMAIN raw THEN raw.optional ELSE FALSE]

py_name(p) == Underscore(p.name)

RECURSIVE MapProps(_)
MapProps(raws) ==
    IF raws = <<>> THEN <<>>
    ELSE <<CdpPropertyFromJson(Head(raws))>> \o MapProps(Tail(raws))

\* The status of the first element that is not "ok", or "ok".
RECURSIVE FirstError(_)
FirstError(results) ==
    IF results = <<>> THEN "ok"
    ELSE IF Head(results).status # "ok" THEN Head(results).status
    ELSE FirstError(Tail(results))

\* The CdpType of a raw record whose properties are built
TypeOf(raw, props, err) ==
    IF "id" \notin DOMAIN raw THEN [status |-> "KeyError"]
    ELSE IF "type" \notin DOMAIN raw THEN [status |-> "KeyError"]
    ELSE IF err # "ok" THEN [status |-> err]
    ELSE [status |-> "ok",
          id |-> raw.id,
          description |-> IF "description" \in DOMAIN raw
                          THEN raw.description ELSE None,
          type |-> raw.type,
          enum |-> IF "enum" \in DOMAIN raw THEN raw.enum ELSE <<>>,
          properties |-> props]

RawProperties(raw) ==
    IF "properties" \in DOMAIN raw THEN MapProps(raw.properties) ELSE <<>>

\* CdpType.from_json: the arguments of cls(...) are evaluated in order
CdpTypeFromJson(raw) ==
    IF "id" \notin DOMAIN raw THEN [status |-> "KeyError"]
    ELSE TypeOf(raw, RawProperties(raw), FirstError(RawProperties(raw)))

\* CdpPrimitiveType: the names of the enum's members
CdpPrimitiveType == {"any", "array", "boolean", "integer", "number", "object", "string"}

-----------------------------------------------------------------------------
(* Emission: properties *)

PrimAnnotation(type) ==
    IF type \in CdpPrimitiveType
    THEN [status |-> "ok", prim |-> type, ref |-> <<>>]
    ELSE [status |-> "KeyError"]

\* The annotation '<py_ref>' of a resolved reference r
RefAnnotation(r) ==
    IF r.status # "ok" THEN [status |-> r.status]
    ELSE [status |-> "ok", prim |-> None, ref |-> r.name]

\* CdpItemType.py_annotation
ItemPyAnnotation(item) ==
    IF item.type # None THEN PrimAnnotation(item.type)
    ELSE IF item.ref = <<>> THEN [status |-> "TypeError"]
    ELSE RefAnnotation(ref_to_python(item.ref))

\* typing.List[...] and typing.Optional[...] around the annotation a
Annotated(a, list, optional) ==
    IF a.status # "ok" THEN [status |-> a.status]
    ELSE [status |-> "ok", list |-> list, prim |-> a.prim, ref |-> a.ref,
          optional |-> optional]

\* CdpProperty.py_annotation
PropPyAnnotation(p) ==
    IF p.type = "array"
    THEN IF p.items = <<>> THEN [status |-> "AttributeError"]
         ELSE Annotated(ItemPyAnnotation(p.items[1]), TRUE, p.optional)
    ELSE IF p.ref # <<>>
    THEN Annotated(RefAnnotation(ref_to_python(p.ref)), FALSE, p.optional)
    ELSE Annotated(PrimAnnotation(p.type), FALSE, p.optional)

\* The declaration "<py_name>: <ann> [= None]"
Decl(p, ann) ==
    IF ann.status # "ok" THEN [status |-> ann.status]
    ELSE [status |-> "ok", field |-> py_name(p), ann |-> ann,
          default |-> p.optional]

\* CdpProperty.generate_decl
generate_decl(p) == Decl(p, PropPyAnnotation(p))

\* The statement without the "is not None" guard of an optional property
generate_to_json_unguarded(p, dict_, use_self) ==
    LET stmt(conv) == [status |-> "ok", dict |-> dict_, key |-> p.name,
                       self |-> use_self, var |-> py_name(p), conv |-> conv,
                       guarded |-> FALSE]
    IN  IF p.items # <<>>
        THEN IF p.items[1].ref # <<>> THEN stmt("list_to_json")
             ELSE [status |-> "NotImplementedError"]
        ELSE IF p.ref # <<>> THEN stmt("to_json")
             ELSE stmt("raw")

\* CdpProperty.generate_to_json: the statement
\*     [if <value> is not None:] <dict>['<key>'] = <conv>(<value>)
\* where <value> is self.<var> or the local <var>.
generate_to_json(p, dict_, use_self) ==
    LET stmt(conv) == [status |-> "ok", dict |-> dict_, key |-> p.name,
                       self |-> use_self, var |-> py_name(p), conv |-> conv,
                       guarded |-> p.optional]
    IN  IF p.items # <<>>
        THEN IF p.items[1].ref # <<>> THEN stmt("list_to_json")
             ELSE [status |-> "NotImplementedError"]
        ELSE IF p.ref # <<>> THEN stmt("to_json")
             ELSE stmt("raw")

\* The expression <py_ref>.from_json(...) over a resolved reference r
FromJsonExpr(p, conv, r) ==
    IF r.status # "ok" THEN [status |-> r.status]
    ELSE [status |-> "ok", key |-> p.name, conv |-> conv, cls |-> r.name,
          guarded |-> p.optional]

\* CdpProperty.generate_from_json: the expression
\*     <conv>(json['<key>']) [if '<key>' in json else None]
\* "raise NotImplemented()" calls a non-callable: TypeError.
generate_from_json(p) ==
    IF p.items # <<>>
    THEN IF p.items[1].ref # <<>>
         THEN FromJsonExpr(p, "list_from_json", ref_to_python(p.items[1].ref))
         ELSE [status |-> "TypeError"]
    ELSE IF p.ref # <<>>
         THEN FromJsonExpr(p, "from_json", ref_to_python(p.ref))
         ELSE [status |-> "ok", key |-> p.name, conv |-> "raw", cls |-> <<>>,
               guarded |-> p.optional]

-----------------------------------------------------------------------------
(* Emission: types *)

OptionalKey(p) == IF p.optional THEN 1 ELSE 0

\* One step of a stable sort: p goes after every element whose key is not
\* greater than its own.
RECURSIVE InsertByOptional(_, _)
InsertByOptional(sorted, p) ==
    IF sorted = <<>> THEN <<p>>
    ELSE IF OptionalKey(sorted[Len(sorted)]) > OptionalKey(p)
    THEN Append(InsertByOptional(SubSeq(sorted, 1, Len(sorted) - 1), p),
                sorted[Len(sorted)])
    ELSE Append(sorted, p)

\* The list left as the schema gives it (the sort left out)
KeepSchemaOrder(props) == props

\* props.sort(key=operator.attrgetter('optional')): list.sort is stable
RECURSIVE SortByOptional(_)
SortByOptional(props) ==
    IF props = <<>> THEN <<>>
    ELSE InsertByOptional(SortByOptional(SubSeq(props, 1, Len(props) - 1)),
                          props[Len(props)])

\* The text of a class, unless a piece failed to generate
ClassText(t, decls, assigns, kwargs, err) ==
    IF err # "ok" THEN [status |-> err]
    ELSE [status |-> "ok", kind |-> "class", id |-> t.id, decls |-> decls,
          to_json |-> assigns, from_json |-> kwargs]

\* The pieces are generated in the order declarations, to_json body,
\* from_json arguments; the first that fails raises.
ClassPieces(t, decls, assigns, kwargs) ==
    ClassText(t, decls, assigns, kwargs,
              FirstError(decls \o assigns \o [i \in 1..Len(kwargs) |-> kwargs[i].expr]))

\* The declarations over declProps, the to_json body over jsonProps, the
\* keyword arguments "<name>=<expr>" of from_json over fromProps
ClassCode(t, declProps, jsonProps, fromProps) ==
    ClassPieces(t,
        [i \in 1..Len(declProps) |-> generate_decl(declProps[i])],
        [i \in 1..Len(jsonProps) |-> generate_to_json(jsonProps[i], "json", TRUE)],
        [i \in 1..Len(fromProps) |->
            [kw |-> fromProps[i].name, expr |-> generate_from_json(fromProps[i])]])

\* CdpType.generate_class_code with the to_json body in schema order
generate_class_code_schema_order(t) ==
    ClassCode(t, SortByOptional(t.properties), t.properties, t.properties)

\* CdpType.generate_class_code: props is the sorted copy; the declarations
\* and the to_json body run over props, from_json over self.properties.
generate_class_code(t) ==
    ClassCode(t, SortByOptional(t.properties), SortByOptional(t.properties),
              t.properties)

\* CdpType.generate_enum_code: one member per variant, named by the upper
\* snake case of the wire string, valued by the wire string
generate_enum_code(t) ==
    [status |-> "ok", kind |-> "enum", id |-> t.id,
     members |-> [i \in 1..Len(t.enum) |->
                    [name |-> UpperAll(Underscore(t.enum[i])),
                     value |-> t.enum[i]]]]

\* CdpType.generate_primitive_code
generate_primitive_code(t) ==
    IF t.type \notin CdpPrimitiveType THEN [status |-> "KeyError"]
    ELSE [status |-> "ok", kind |-> "primitive", id |-> t.id, py_type |-> t.type]

\* CdpType.generate_code
TypeGenerateCode(t) ==
    IF t.enum # <<>> THEN generate_enum_code(t)
    ELSE IF t.properties # <<>> THEN generate_class_code(t)
    ELSE generate_primitive_code(t)

\* A list object as a name of generate_class_code holds it: its elements,
\* and whether it is the object self.properties names.
\* "props = list(self.properties)" makes a new list object.
ListAlias(l) == [shared |-> TRUE, elems |-> l]

ListCopy(l) == [shared |-> FALSE, elems |-> l]

\* "props.sort(key=operator.attrgetter('optional'))" sorts the object props
\* names in place: self.properties is sorted with it when it is that object
SelfAfterSort(t, props) ==
    IF props.shared
    THEN [t EXCEPT !.properties = SortByOptional(props.elems)]
    ELSE t

\* The CdpType as generate_code leaves it: generate_class_code sorts props;
\* generate_enum_code and generate_primitive_code assign nothing
TypeAfterEmission(t) ==
    IF t.enum = <<>> /\ t.properties # <<>>
    THEN SelfAfterSort(t, ListCopy(t.properties))
    ELSE t

-----------------------------------------------------------------------------
(* IR and emission: commands *)

\* The CdpCommand of a raw record whose parameters and returns are built
CommandOf(raw, domain, params, returns, err) ==
    IF err # "ok" THEN [status |-> err]
    ELSE [status |-> "ok",
          name |-> raw.name,
          description |-> IF "description" \in DOMAIN raw
                          THEN raw.description ELSE None,
          experimental |-> IF "experimental" \in DOMAIN raw
                           THEN raw.experimental ELSE FALSE,
          parameters |-> params,
          returns |-> returns,
          domain |-> domain]

CommandMembers(raw, domain, params, returns) ==
    CommandOf(raw, domain, params, returns, FirstError(params \o returns))

\* CdpCommand.from_json: CdpParameter.from_json and CdpReturn.from_json are
\* CdpProperty.from_json
CdpCommandFromJson(raw, domain) ==
    IF "name" \notin DOMAIN raw THEN [status |-> "KeyError"]
    ELSE CommandMembers(raw, domain,
            IF "parameters" \in DOMAIN raw THEN MapProps(raw.parameters) ELSE <<>>,
            IF "returns" \in DOMAIN raw THEN MapProps(raw.returns) ELSE <<>>)

\* CdpParameter.generate_code: "<py_name>: <type> [= None]"
ParameterGenerateCode(p) ==
    IF p.ref # <<>>
    THEN Decl(p, Annotated(RefAnnotation(ref_to_python(p.ref)), FALSE, p.optional))
    ELSE Decl(p, Annotated(PrimAnnotation(p.type), FALSE, p.optional))

\* CdpParameter.generate_doc, CdpReturn.generate_doc:
\* self.description.replace(...) on None raises AttributeError
generate_doc(p) ==
    IF p.description = None THEN [status |-> "AttributeError"]
    ELSE [status |-> "ok"]

\* CdpReturn.py_annotation: only a list of references has one
ReturnPyAnnotation(r) ==
    IF r.items # <<>>
    THEN IF r.items[1].ref # <<>>
         THEN Annotated(RefAnnotation(ref_to_python(r.items[1].ref)), TRUE, FALSE)
         ELSE [status |-> "NotImplementedError"]
    ELSE [status |-> "NotImplementedError"]

\* "ret_type = ...": no return and several returns are not implemented
ReturnType(c) ==
    IF Len(c.returns) = 0 THEN [status |-> "NotImplementedError"]
    ELSE IF Len(c.returns) = 1 THEN ReturnPyAnnotation(c.returns[1])
    ELSE [status |-> "NotImplementedError"]

\* The docstring: a line per parameter, then the line of the one return
CommandDoc(c) ==
    [i \in 1..Len(c.parameters) |-> generate_doc(c.parameters[i])]
    \o (IF Len(c.returns) = 1 THEN <<generate_doc(c.returns[1])>>
        ELSE IF Len(c.returns) > 1 THEN <<[status |-> "NotImplementedError"]>>
        ELSE <<>>)

\* The body with a second "json = yield cmd_dict"
CommandBodyTwoYields(c, assigns, exprs) ==
    <<[op |-> "new_dict"]>> \o assigns
    \o <<[op |-> "cmd_dict", method |-> c.domain \o <<".">> \o c.name,
          has_params |-> TRUE],
         [op |-> "yield"], [op |-> "yield"],
         [op |-> "return", exprs |-> exprs]>>

\* The body of the emitted function:
\*     params: T_JSON_DICT = dict()
\*     <one to_json statement per parameter, on the local variables>
\*     cmd_dict: T_JSON_DICT = {'method': '<domain>.<name>', 'params': params}
\*     json = yield cmd_dict
\*     return <from_json expression of each return>
CommandBody(c, assigns, exprs) ==
    <<[op |-> "new_dict"]>> \o assigns
    \o <<[op |-> "cmd_dict", method |-> c.domain \o <<".">> \o c.name,
          has_params |-> TRUE],
         [op |-> "yield"],
         [op |-> "return", exprs |-> exprs]>>

\* The text of a command, unless a piece failed to generate
CommandText(c, decls, body, err) ==
    IF err # "ok" THEN [status |-> err]
    ELSE [status |-> "ok", kind |-> "command", name |-> py_name(c),
          decls |-> decls, body |-> body]

\* The pieces are generated in the order return type, declarations,
\* docstring, to_json statements, return expression.
CommandPieces(c, ret, decls, docs, assigns, exprs) ==
    CommandText(c, decls, CommandBody(c, assigns, exprs),
                FirstError(<<ret>> \o decls \o docs \o assigns
                           \o (IF Len(c.returns) = 0
                               THEN <<[status |-> "NotImplementedError"]>>
                               ELSE exprs)))

\* CdpCommand.generate_code
CommandGenerateCode(c) ==
    CommandPieces(c, ReturnType(c),
        [i \in 1..Len(c.parameters) |-> ParameterGenerateCode(c.parameters[i])],
        CommandDoc(c),
        [i \in 1..Len(c.parameters) |->
            generate_to_json(c.parameters[i], "params", FALSE)
            @@ [op |-> "assign"]],
        [i \in 1..Len(c.returns) |-> generate_from_json(c.returns[i])])

-----------------------------------------------------------------------------
(* IR and emission: domains *)

RECURSIVE MapTypes(_)
MapTypes(raws) ==
    IF raws = <<>> THEN <<>>
    ELSE <<CdpTypeFromJson(Head(raws))>> \o MapTypes(Tail(raws))

RECURSIVE MapCommands(_, _)
MapCommands(raws, domain) ==
    IF raws = <<>> THEN <<>>
    ELSE <<CdpCommandFromJson(Head(raws), domain)>> \o MapCommands(Tail(raws), domain)

\* The CdpDomain of a raw record whose types and commands are built; the
\* events are left out (list())
DomainOf(raw, types, commands, err) ==
    IF err # "ok" THEN [status |-> err]
    ELSE [status |-> "ok",
          domain |-> raw.domain,
          experimental |-> IF "experimental" \in DOMAIN raw
                           THEN raw.experimental ELSE FALSE,
          dependencies |-> IF "dependencies" \in DOMAIN raw
                           THEN raw.dependencies ELSE <<>>,
          types |-> types,
          commands |-> commands,
          events |-> <<>>]

DomainMembers(raw, types, commands) ==
    DomainOf(raw, types, commands, FirstError(types \o commands))

\* CdpDomain.from_json
CdpDomainFromJson(raw) ==
    IF "domain" \notin DOMAIN raw THEN [status |-> "KeyError"]
    ELSE DomainMembers(raw,
            IF "types" \in DOMAIN raw THEN MapTypes(raw.types) ELSE <<>>,
            IF "commands" \in DOMAIN raw
            THEN MapCommands(raw.commands, raw.domain) ELSE <<>>)

\* CdpDomain.module
module(d) == Underscore(d.domain)

\* The text of a module: the header and the code of the items
ModuleText(d, items, err) ==
    IF err # "ok" THEN [status |-> err]
    ELSE [status |-> "ok", domain |-> d.domain, experimental |-> d.experimental,
          items |-> items]

ModuleItems(d, items) == ModuleText(d, items, FirstError(items))

\* CdpEvent.generate_code: the text 'TODO'
EventGenerateCode(e) == [status |-> "ok", kind |-> "event", text |-> "TODO"]

\* CdpDomain.generate_code: the types, then the commands, then the events
DomainGenerateCode(d) ==
    ModuleItems(d, [i \in 1..Len(d.types) |-> TypeGenerateCode(d.types[i])]
                   \o [i \in 1..Len(d.commands) |-> CommandGenerateCode(d.commands[i])]
                   \o [i \in 1..Len(d.events) |-> EventGenerateCode(d.events[i])])

\* The CdpDomain as generate_code leaves it: its types as their emission
\* leaves them; the commands and the domain itself are only read
DomainAfterEmission(d) ==
    [d EXCEPT !.types = [i \in 1..Len(d.types) |-> TypeAfterEmission(d.types[i])]]

-----------------------------------------------------------------------------
(* The generation run: parse and main *)

\* The version parse asserts
SupportedVersion == [major |-> "1", minor |-> "3"]

\* A check that lets every version pass
AnyVersion(version) == TRUE

\* (version['major'], version['minor']) == ('1', '3')
VersionSupported(version) ==
    version.major = SupportedVersion.major /\ version.minor = SupportedVersion.minor

\* The order of str: by code point, capitals before small letters
CodePoints == Uppers \o Lowers

Ord(c) == CHOOSE i \in 1..Len(CodePoints) : CodePoints[i] = c

RECURSIVE StrLess(_, _)
StrLess(a, b) ==
    IF b = <<>> THEN FALSE
    ELSE IF a = <<>> THEN TRUE
    ELSE IF Head(a) = Head(b) THEN StrLess(Tail(a), Tail(b))
    ELSE Ord(Head(a)) < Ord(Head(b))

\* One step of a stable sort by domain name
RECURSIVE InsertByDomain(_, _)
InsertByDomain(sorted, d) ==
    IF sorted = <<>> THEN <<d>>
    ELSE IF StrLess(d.domain, sorted[Len(sorted)].domain)
    THEN Append(InsertByDomain(SubSeq(sorted, 1, Len(sorted) - 1), d),
                sorted[Len(sorted)])
    ELSE Append(sorted, d)

\* The list left in the order the documents give
KeepDocumentOrder(ds) == ds

\* domains.sort(key=operator.attrgetter('domain'))
RECURSIVE SortByDomain(_)
SortByDomain(ds) ==
    IF ds = <<>> THEN <<>>
    ELSE InsertByDomain(SortByDomain(SubSeq(ds, 1, Len(ds) - 1)), ds[Len(ds)])

\* output_path / f'{domain.module}.py'
ModulePath(m) == m \o <<".", "p", "y">>

\* output_path / 'py.typed'
PyTypedPath == <<"p", "y", ".", "t", "y", "p", "e", "d">>

\* A file that open('w') has created or truncated, and a file whose text
\* has been written
EmptyFile == [t |-> "file", written |-> FALSE, text |-> <<>>]
WrittenFile(text) == [t |-> "file", written |-> TRUE, text |-> <<text>>]

-----------------------------------------------------------------------------
(* Running emitted code: values *)

\* In-memory and wire values.  An enum member is not its wire string.
NoneVal == [t |-> "none"]
Str(s) == [t |-> "str", s |-> s]
Member(cls, name) == [t |-> "member", cls |-> cls, name |-> name]
List(l) == [t |-> "list", l |-> l]

\* dict: the sequence of its entries in insertion order
HasKey(d, k) == \E i \in 1..Len(d) : d[i].k = k

DictGet(d, k) == d[CHOOSE i \in 1..Len(d) : d[i].k = k].v

DictSet(d, k, v) ==
    IF HasKey(d, k)
    THEN [i \in 1..Len(d) |-> IF d[i].k = k THEN [k |-> k, v |-> v] ELSE d[i]]
    ELSE Append(d, [k |-> k, v |-> v])

Keys(d) == {d[i].k : i \in 1..Len(d)}

KeyOrder(d) == [i \in 1..Len(d) |-> d[i].k]

\* dict.__eq__: the same entries, whatever the insertion order
DictEq(d, e) == {d[i] : i \in 1..Len(d)} = {e[i] : i \in 1..Len(e)}

\* The enum type every reference of the enumerated schemas names, and the
\* unit it is emitted into.
RefTypeId == <<"S">>

RefTypeRaw == [id |-> RefTypeId, type |-> "string",
               enum |-> << <<"a">>, <<"b", "C">> >>]

\* The emitted classes a reference can name at run time
Classes == <<TypeGenerateCode(CdpTypeFromJson(RefTypeRaw))>>

MemberNamed(ms, name) == ms[CHOOSE i \in 1..Len(ms) : ms[i].name = name]

\* The emitted enum's to_json: return self.value
EnumToJson(classes, v) ==
    [status |-> "ok",
     v |-> Str(MemberNamed(classes[CHOOSE i \in 1..Len(classes) :
                                       classes[i].id = v.cls].members, v.name).value)]

\* v.to_json(): None, str and list have no such method
ValueToJson(v) ==
    IF v.t # "member" THEN [status |-> "AttributeError"]
    ELSE EnumToJson(Classes, v)

\* A lookup that gives the first member when no value matches
EnumFromJsonDefault(cls, ms, w) ==
    IF w.t = "str" /\ \E i \in 1..Len(ms) : ms[i].value = w.s
    THEN [status |-> "ok",
          v |-> Member(cls, ms[CHOOSE i \in 1..Len(ms) : ms[i].value = w.s].name)]
    ELSE [status |-> "ok", v |-> Member(cls, ms[1].name)]

\* The emitted enum's from_json: return cls(json), the member whose value
\* is json; ValueError when there is none
EnumFromJson(cls, ms, w) ==
    IF w.t = "str" /\ \E i \in 1..Len(ms) : ms[i].value = w.s
    THEN [status |-> "ok",
          v |-> Member(cls, ms[CHOOSE i \in 1..Len(ms) : ms[i].value = w.s].name)]
    ELSE [status |-> "ValueError"]

LookupFromJson(classes, cls, w) ==
    IF \A i \in 1..Len(classes) : classes[i].id # cls
    THEN [status |-> "NameError"]
    ELSE EnumFromJson(cls, classes[CHOOSE i \in 1..Len(classes) :
                                        classes[i].id = cls].members, w)

\* <cls>.from_json(w)
ClassFromJson(cls, w) == LookupFromJson(Classes, cls, w)

\* The list of the results rs, unless one of them failed
Collected(rs, err) ==
    IF err # "ok" THEN [status |-> err]
    ELSE [status |-> "ok", v |-> List([i \in 1..Len(rs) |-> rs[i].v])]

Collect(rs) == Collected(rs, FirstError(rs))

\* [i.to_json() for i in v]
ListToJson(v) ==
    IF v.t # "list" THEN [status |-> "TypeError"]
    ELSE Collect([i \in 1..Len(v.l) |-> ValueToJson(v.l[i])])

\* [<cls>.from_json(i) for i in w]
ListFromJson(cls, w) ==
    IF w.t # "list" THEN [status |-> "TypeError"]
    ELSE Collect([i \in 1..Len(w.l) |-> ClassFromJson(cls, w.l[i])])

-----------------------------------------------------------------------------
(* Running emitted code: statements and expressions *)

\* <dict>['<key>'] = <out>
Store(stmt, d, out) ==
    IF out.status # "ok" THEN [status |-> out.status]
    ELSE [status |-> "ok", d |-> DictSet(d, stmt.key, out.v)]

\* The right-hand side of an emitted to_json statement on the value val
Converted(stmt, val) ==
    IF stmt.conv = "raw" THEN [status |-> "ok", v |-> val]
    ELSE IF stmt.conv = "to_json" THEN ValueToJson(val)
    ELSE ListToJson(val)

\* [if <val> is not None:] <dict>['<key>'] = <conv>(<val>)
GuardedStore(stmt, d, val) ==
    IF stmt.guarded /\ val = NoneVal THEN [status |-> "ok", d |-> d]
    ELSE Store(stmt, d, Converted(stmt, val))

\* One emitted to_json statement, run on dict d with the variables of
\* scope (the fields of self, or the arguments of a command).
RunAssign(stmt, scope, d) ==
    IF ~HasKey(scope, stmt.var)
    THEN [status |-> IF stmt.self THEN "AttributeError" ELSE "NameError"]
    ELSE GuardedStore(stmt, d, DictGet(scope, stmt.var))

\* The statements of a body, in order, until one raises
RECURSIVE RunAssigns(_, _, _)
RunAssigns(stmts, scope, r) ==
    IF stmts = <<>> \/ r.status # "ok" THEN r
    ELSE RunAssigns(Tail(stmts), scope, RunAssign(Head(stmts), scope, r.d))

\* One emitted from_json expression, evaluated on the dict json
EvalExpr(expr, json) ==
    IF ~HasKey(json, expr.key)
    THEN IF expr.guarded THEN [status |-> "ok", v |-> NoneVal]
         ELSE [status |-> "KeyError"]
    ELSE IF expr.conv = "raw" THEN [status |-> "ok", v |-> DictGet(json, expr.key)]
    ELSE IF expr.conv = "from_json" THEN ClassFromJson(expr.cls, DictGet(json, expr.key))
    ELSE ListFromJson(expr.cls, DictGet(json, expr.key))

\* The dataclass constructor called with keyword arguments: every keyword
\* must be a declared field and every field without a default must be given
Construct(code, kwargs) ==
    IF \E i \in 1..Len(kwargs) :
          kwargs[i].k \notin {code.decls[j].field : j \in 1..Len(code.decls)}
    THEN [status |-> "TypeError"]
    ELSE IF \E i \in 1..Len(code.decls) :
                ~code.decls[i].default /\ ~HasKey(kwargs, code.decls[i].field)
    THEN [status |-> "TypeError"]
    ELSE [status |-> "ok", cls |-> code.id,
          fields |-> [i \in 1..Len(code.decls) |->
                [k |-> code.decls[i].field,
                 v |-> IF HasKey(kwargs, code.decls[i].field)
                       THEN DictGet(kwargs, code.decls[i].field)
                       ELSE NoneVal]]]

\* x.to_json() of an emitted class: json = dict(); <statements>; return json
EvalToJson(code, x) ==
    RunAssigns(code.to_json, x.fields, [status |-> "ok", d |-> <<>>])

\* cls(<kw>=<value>, ...) over the evaluated arguments rs
ConstructFrom(code, rs, err) ==
    IF err # "ok" THEN [status |-> err]
    ELSE Construct(code, [i \in 1..Len(rs) |->
                            [k |-> code.from_json[i].kw, v |-> rs[i].v]])

EvalArgs(code, rs) == ConstructFrom(code, rs, FirstError(rs))

\* <class>.from_json(json) of an emitted class: return cls(<kw>=<expr>, ...)
EvalFromJson(code, json) ==
    EvalArgs(code, [i \in 1..Len(code.from_json) |->
                        EvalExpr(code.from_json[i].expr, json)])

-----------------------------------------------------------------------------
(* Running emitted code: the generator of a command *)

\* A variable that holds nothing yet
Unset == [status |-> "unset"]

\* "def f(<decls>)": a parameter without a default may not follow one
\* with a default (SyntaxError when the unit is loaded)
ValidSignature(decls) ==
    \A i, j \in 1..Len(decls) : (i < j /\ decls[i].default) => decls[j].default

\* Calling the emitted function binds the arguments and creates the
\* generator; no statement of the body runs yet.
NewGenerator(kwargs) ==
    [state |-> "created", ip |-> 1, scope |-> kwargs, params |-> <<>>,
     cmd_dict |-> Unset, json |-> <<>>, result |-> Unset]

Raised(g, err) == [g EXCEPT !.state = "raised", !.result = [status |-> err]]

\* After an emitted to_json statement with outcome r
AfterAssign(g, r) ==
    IF r.status # "ok" THEN Raised(g, r.status)
    ELSE [g EXCEPT !.params = r.d, !.ip = @ + 1]

\* The value of "return <expr>, ..." over the evaluated expressions rs:
\* the value of the one expression, or a tuple
Returned(g, rs, err) ==
    IF err # "ok" THEN Raised(g, err)
    ELSE [g EXCEPT !.state = "returned",
                   !.result = [status |-> "ok",
                               v |-> IF Len(rs) = 1 THEN rs[1].v
                                     ELSE List([i \in 1..Len(rs) |-> rs[i].v])]]

AfterReturn(g, rs) == Returned(g, rs, FirstError(rs))

\* One statement of the body run by generator g; the end of the body
\* returns None.
ExecStmt(body, g) ==
    IF g.ip > Len(body)
    THEN [g EXCEPT !.state = "returned", !.result = [status |-> "ok", v |-> NoneVal]]
    ELSE IF body[g.ip].op = "new_dict" THEN [g EXCEPT !.params = <<>>, !.ip = @ + 1]
    ELSE IF body[g.ip].op = "assign"
    THEN AfterAssign(g, RunAssign(body[g.ip], g.scope, g.params))
    ELSE IF body[g.ip].op = "cmd_dict"
    THEN [g EXCEPT !.cmd_dict = [method |-> body[g.ip].method,
                                 has_params |-> body[g.ip].has_params,
                                 params |-> g.params],
                   !.ip = @ + 1]
    ELSE IF body[g.ip].op = "yield" THEN [g EXCEPT !.state = "suspended"]
    ELSE AfterReturn(g, [i \in 1..Len(body[g.ip].exprs) |->
                            EvalExpr(body[g.ip].exprs[i], g.json)])

-----------------------------------------------------------------------------
(* The schemas the model runs on *)

\* The name of the property at each position of a type; the third differs
\* from its snake case.
PropNames == << <<"a">>, <<"b">>, <<"c", "D">>, <<"e">>, <<"f">> >>

ValueTypes == {"primitive", "ref", "array_ref", "array_prim"}

\* The JSON object of a property: "optional" is present only when true.
RawProp(i, vt, opt) ==
    LET base == [name |-> PropNames[i], description |-> "doc"]
        typed == IF vt = "primitive" THEN base @@ [type |-> "string"]
                 ELSE IF vt = "ref" THEN base @@ [ref |-> RefTypeId]
                 ELSE IF vt = "array_ref"
                 THEN base @@ [type |-> "array", items |-> [ref |-> RefTypeId]]
                 ELSE base @@ [type |-> "array", items |-> [type |-> "string"]]
    IN  IF opt THEN typed @@ [optional |-> TRUE] ELSE typed

RECURSIVE Product(_)
Product(choices) ==
    IF choices = <<>> THEN {<<>>}
    ELSE {<<h>> \o t : h \in Head(choices), t \in Product(Tail(choices))}

RawPropLists(n) ==
    Product([i \in 1..n |-> {RawProp(i, vt, opt) : vt \in ValueTypes, opt \in BOOLEAN}])

RawStructs ==
    {[id |-> <<"T">>, type |-> "object", properties |-> ps] :
        ps \in UNION {RawPropLists(n) : n \in 1..MaxProps}}

\* The mixed struct of the ordering rule: [A(req), B(opt), C(req), D(opt)]
RawMixedStruct ==
    [id |-> <<"T">>, type |-> "object",
     properties |-> <<RawProp(1, "primitive", FALSE), RawProp(2, "ref", TRUE),
                      RawProp(3, "array_ref", FALSE), RawProp(4, "primitive", TRUE)>>]

RawAlias == [id |-> <<"A">>, type |-> "integer"]

\* The wire strings of enum variants: plain, camelCase, hyphenated
VariantPool == { <<"a">>, <<"b", "C">>, <<"c", "-", "d">> }

Range(f) == {f[i] : i \in DOMAIN f}

\* The lists of n distinct variants
RECURSIVE VariantLists(_)
VariantLists(n) ==
    IF n = 0 THEN {<<>>}
    ELSE UNION {{Append(vs, v) : v \in VariantPool \ Range(vs)} :
                    vs \in VariantLists(n - 1)}

RawEnums ==
    {[id |-> <<"E">>, type |-> "string", enum |-> vs] :
        vs \in UNION {VariantLists(n) : n \in 1..MaxVariants}}

\* The strings a peer may send for an enum: the variants, and strings that
\* are no variant (another case, a member name, the empty string)
EnumStrings ==
    VariantPool \cup { <<"A">>, <<"b", "c">>, <<"B", "_", "C">>, <<"c", "_", "d">>, <<>> }

\* A property that declares an array and gives no item descriptor, and one
\* whose item descriptor names neither a type nor a reference
ArrayNoItems(i) == [name |-> PropNames[i], description |-> "doc", type |-> "array"]
ArrayBadItems(i) ==
    [name |-> PropNames[i], description |-> "doc", type |-> "array",
     items |-> [description |-> "doc"]]

\* Records that lack a required field, and structs with such arrays
RawMalformedTypes ==
    {[type |-> "integer"],
     [id |-> <<"T">>],
     [id |-> <<"T">>, type |-> "object",
      properties |-> <<[description |-> "doc", type |-> "string"]>>],
     [id |-> <<"T">>, type |-> "object", properties |-> <<ArrayNoItems(1)>>],
     [id |-> <<"T">>, type |-> "object", properties |-> <<ArrayBadItems(1)>>]}

RawTypes ==
    RawStructs \cup RawEnums \cup RawMalformedTypes
    \cup {RawMixedStruct, RefTypeRaw, RawAlias}

\* A parameter or return without a description
Undocumented(i, vt, opt) ==
    [f \in DOMAIN RawProp(i, vt, opt) \ {"description"} |-> RawProp(i, vt, opt)[f]]

RawParams(i) ==
    {RawProp(i, vt, FALSE) : vt \in ValueTypes}
    \cup {RawProp(i, vt, TRUE) : vt \in ValueTypes \ {"array_prim"}}
    \cup {Undocumented(i, "primitive", FALSE)}

RawReturns(i) ==
    {RawProp(i, vt, FALSE) : vt \in ValueTypes}
    \cup {RawProp(i, "array_ref", TRUE), Undocumented(i, "array_ref", FALSE)}

RawParamLists == UNION {Product([i \in 1..n |-> RawParams(i)]) : n \in 0..MaxParams}

RawReturnLists == UNION {Product([i \in 1..n |-> RawReturns(i)]) : n \in 0..MaxReturns}

DomainName == <<"D">>

\* The JSON object of a command: an empty list is left out
RawCommand(ps, rs) ==
    [name |-> <<"g", "E">>, description |-> "doc"]
    @@ (IF ps # <<>> THEN [parameters |-> ps] ELSE <<>>)
    @@ (IF rs # <<>> THEN [returns |-> rs] ELSE <<>>)

\* Commands that lack a name or take such an array
RawMalformedCommands ==
    {[description |-> "doc", returns |-> <<RawProp(2, "array_ref", FALSE)>>],
     RawCommand(<<ArrayNoItems(1)>>, <<RawProp(2, "array_ref", FALSE)>>),
     RawCommand(<<ArrayBadItems(1)>>, <<RawProp(2, "array_ref", FALSE)>>)}

RawCommands ==
    {RawCommand(ps, rs) : ps \in RawParamLists, rs \in RawReturnLists}
    \cup RawMalformedCommands

\* The values used at position i
PrimValue(i) == Str(<<Lowers[i]>>)
Variant(i) == RefTypeRaw.enum[(i % 2) + 1]
MemberValue(i) == Member(RefTypeId, UpperAll(Underscore(Variant(i))))

IsList(p) == p.items # <<>>
IsRef(p) == IF IsList(p) THEN p.items[1].ref # <<>> ELSE p.ref # <<>>

\* one, or the list [one, two]; also None and the empty list when optional
ValuesFrom(p, one, two) ==
    (IF IsList(p) THEN {List(<<one, two>>)} ELSE {one})
    \cup (IF p.optional THEN {NoneVal} ELSE {})
    \cup (IF p.optional /\ IsList(p) THEN {List(<<>>)} ELSE {})

\* The in-memory values a type-conforming caller gives property i
Values(p, i) ==
    IF IsRef(p) THEN ValuesFrom(p, MemberValue(i), MemberValue(i + 1))
    ELSE ValuesFrom(p, PrimValue(i), PrimValue(i + 1))

WireValuesFrom(p, one, two) == IF IsList(p) THEN {List(<<one, two>>)} ELSE {one}

\* The wire values a conforming peer sends for property i
WireValues(p, i) ==
    IF IsRef(p) THEN WireValuesFrom(p, Str(Variant(i)), Str(Variant(i + 1)))
    ELSE WireValuesFrom(p, PrimValue(i), PrimValue(i + 1))

RECURSIVE Flatten(_)
Flatten(ss) == IF ss = <<>> THEN <<>> ELSE Head(ss) \o Flatten(Tail(ss))

\* The keyword arguments of every type-conforming construction from props
ArgLists(props) ==
    Product([i \in 1..Len(props) |->
                {[k |-> py_name(props[i]), v |-> v] : v \in Values(props[i], i)}])

\* The wire maps with every required key and any subset of the optional keys
WireMaps(props) ==
    {Flatten(c) : c \in Product([i \in 1..Len(props) |->
        {<<[k |-> props[i].name, v |-> w]>> : w \in WireValues(props[i], i)}
        \cup (IF props[i].optional THEN {<<>>} ELSE {})])}

\* The names of the domains of the first and of the second document
DomainNames == << << <<"B">>, <<"d", "A">>, <<"F">> >>,
                  << <<"A", "b">>, <<"C">>, <<"E">> >> >>

\* A reference that does not split into a domain and a type
BadRef == <<"D", ".", "S", ".", "S">>

DomainKinds == {"ok", "zero_returns", "bad_ref", "no_id"}

\* A raw domain of each kind: one that is built and emitted (it declares
\* a dependency on a domain whose name sorts after its own, or on 'B' when
\* it is named 'dA', and types, a command and an event), one whose
\* command has no returns, one whose type holds a reference that cannot be
\* resolved, and one whose type has no id.
RawDomain(name, kind) ==
    IF kind = "ok"
    THEN [domain |-> name,
          dependencies |-> <<IF name = <<"d", "A">> THEN <<"B">> ELSE <<"d", "A">>>>,
          types |-> <<RefTypeRaw, RawMixedStruct>>,
          commands |-> <<RawCommand(<<RawProp(1, "primitive", FALSE)>>,
                                    <<RawProp(2, "array_ref", FALSE)>>)>>,
          events |-> <<[name |-> <<"e", "F">>, description |-> "doc",
                        parameters |-> <<RawProp(1, "primitive", FALSE)>>]>>]
    ELSE IF kind = "zero_returns"
    THEN [domain |-> name, experimental |-> TRUE,
          commands |-> <<RawCommand(<<RawProp(1, "primitive", FALSE)>>, <<>>)>>]
    ELSE IF kind = "bad_ref"
    THEN [domain |-> name,
          types |-> <<[id |-> <<"T">>, type |-> "object",
                       properties |-> <<[name |-> <<"a">>, description |-> "doc",
                                         ref |-> BadRef]>>]>>]
    ELSE [domain |-> name, types |-> <<[type |-> "integer"]>>]

RawDomainLists(doc) ==
    UNION {Product([i \in 1..n |-> {RawDomain(DomainNames[doc][i], kind) :
                                        kind \in DomainKinds}]) :
           n \in 0..MaxDomains}

Versions == {SupportedVersion, [major |-> "1", minor |-> "2"],
             [major |-> "2", minor |-> "3"]}

\* A schema document: its version and its domains
Documents(doc) ==
    {[version |-> v, domains |-> ds] : v \in Versions, ds \in RawDomainLists(doc)}

\* main reads two documents: browser_protocol.json and js_protocol.json
DocumentLists == {<<a, b>> : a \in Documents(1), b \in Documents(2)}

-----------------------------------------------------------------------------
(* The variables of each scenario *)

tvars == <<tpc, ctype, ccode, inst, wire, back>>
cvars == <<cpc, cmd, fcode, gen, sent, resumes>>
rvars == <<rpc, schemas, di, bi, ldomains, domains, wi, files, rerr>>
qvars == <<query, answer>>

-----------------------------------------------------------------------------
(* Scenario "type": one type is built, emitted, and its code is used *)

\* CdpType.from_json on a raw type record
BuildType ==
    /\ mode = "idle"
    /\ \E raw \in RawTypes : \E t \in {CdpTypeFromJson(raw)} :
          /\ ctype' = t
          /\ tpc' = IF t.status = "ok" THEN "built" ELSE "failed"
    /\ mode' = "type"
    /\ UNCHANGED <<ccode, inst, wire, back, cvars, rvars, qvars>>

\* CdpType.generate_code
EmitType ==
    /\ mode = "type" /\ tpc = "built"
    /\ \E c \in {TypeGenerateCode(ctype)} :
          /\ ccode' = c
          /\ tpc' = IF c.status = "ok" THEN "emitted" ELSE "failed"
    /\ ctype' = TypeAfterEmission(ctype)
    /\ UNCHANGED <<mode, inst, wire, back, cvars, rvars, qvars>>

\* A caller constructs an instance of the emitted class
ConstructInstance ==
    /\ mode = "type" /\ tpc = "emitted" /\ ccode.kind = "class"
    /\ \E kwargs \in ArgLists(ctype.properties) : inst' = Construct(ccode, kwargs)
    /\ tpc' = "constructed"
    /\ UNCHANGED <<mode, ctype, ccode, wire, back, cvars, rvars, qvars>>

\* x.to_json()
Serialize ==
    /\ mode = "type" /\ tpc = "constructed" /\ inst.status = "ok"
    /\ wire' = EvalToJson(ccode, inst)
    /\ tpc' = "serialized"
    /\ UNCHANGED <<mode, ctype, ccode, inst, back, cvars, rvars, qvars>>

\* T.from_json(x.to_json())
DeserializeBack ==
    /\ mode = "type" /\ tpc = "serialized" /\ wire.status = "ok"
    /\ back' = EvalFromJson(ccode, wire.d)
    /\ tpc' = "x_round"
    /\ UNCHANGED <<mode, ctype, ccode, inst, wire, cvars, rvars, qvars>>

\* A wire map arrives from the peer
Receive ==
    /\ mode = "type" /\ tpc = "emitted" /\ ccode.kind = "class"
    /\ \E m \in WireMaps(ctype.properties) : wire' = [status |-> "ok", d |-> m]
    /\ tpc' = "received"
    /\ UNCHANGED <<mode, ctype, ccode, inst, back, cvars, rvars, qvars>>

\* T.from_json(m)
Deserialize ==
    /\ mode = "type" /\ tpc = "received"
    /\ inst' = EvalFromJson(ccode, wire.d)
    /\ tpc' = "deserialized"
    /\ UNCHANGED <<mode, ctype, ccode, wire, back, cvars, rvars, qvars>>

\* T.from_json(m).to_json()
SerializeBack ==
    /\ mode = "type" /\ tpc = "deserialized" /\ inst.status = "ok"
    /\ back' = EvalToJson(ccode, inst)
    /\ tpc' = "m_round"
    /\ UNCHANGED <<mode, ctype, ccode, inst, wire, cvars, rvars, qvars>>

\* A member of the emitted enum is serialized: m.to_json()
SerializeMember ==
    /\ mode = "type" /\ tpc = "emitted" /\ ccode.kind = "enum"
    /\ \E i \in 1..Len(ccode.members) :
        \E m \in {Member(ccode.id, ccode.members[i].name)} :
          /\ inst' = [status |-> "ok", v |-> m]
          /\ wire' = EnumToJson(<<ccode>>, m)
    /\ tpc' = "member_serialized"
    /\ UNCHANGED <<mode, ctype, ccode, back, cvars, rvars, qvars>>

\* A string arrives from the peer and is deserialized: E.from_json(s)
DeserializeString ==
    /\ mode = "type" /\ tpc = "emitted" /\ ccode.kind = "enum"
    /\ \E w \in EnumStrings :
          /\ wire' = [status |-> "ok", v |-> Str(w)]
          /\ inst' = EnumFromJson(ccode.id, ccode.members, Str(w))
    /\ tpc' = "string_deserialized"
    /\ UNCHANGED <<mode, ctype, ccode, back, cvars, rvars, qvars>>

TypeNext ==
    \/ BuildType
    \/ EmitType
    \/ ConstructInstance
    \/ Serialize
    \/ DeserializeBack
    \/ Receive
    \/ Deserialize
    \/ SerializeBack
    \/ SerializeMember
    \/ DeserializeString

-----------------------------------------------------------------------------
(* Scenario "command": one command is built, emitted, loaded and called *)

\* CdpCommand.from_json on a raw command record
BuildCommand ==
    /\ mode = "idle"
    /\ \E raw \in RawCommands : \E c \in {CdpCommandFromJson(raw, DomainName)} :
          /\ cmd' = c
          /\ cpc' = IF c.status = "ok" THEN "built" ELSE "failed"
    /\ mode' = "command"
    /\ UNCHANGED <<fcode, gen, sent, resumes, tvars, rvars, qvars>>

\* CdpCommand.generate_code
EmitCommand ==
    /\ mode = "command" /\ cpc = "built"
    /\ \E f \in {CommandGenerateCode(cmd)} :
          /\ fcode' = f
          /\ cpc' = IF f.status = "ok" THEN "emitted" ELSE "failed"
    /\ UNCHANGED <<mode, cmd, gen, sent, resumes, tvars, rvars, qvars>>

\* The emitted unit is loaded: the def statement is compiled
LoadCommand ==
    /\ mode = "command" /\ cpc = "emitted"
    /\ cpc' = IF ValidSignature(fcode.decls) THEN "loaded" ELSE "failed"
    /\ UNCHANGED <<mode, cmd, fcode, gen, sent, resumes, tvars, rvars, qvars>>

\* A caller calls the emitted function with type-conforming arguments
CallCommand ==
    /\ mode = "command" /\ cpc = "loaded"
    /\ \E kwargs \in ArgLists(cmd.parameters) : gen' = NewGenerator(kwargs)
    /\ cpc' = "called"
    /\ UNCHANGED <<mode, cmd, fcode, sent, resumes, tvars, rvars, qvars>>

\* The driver starts the generator: next(gen)
StartGenerator ==
    /\ mode = "command" /\ cpc = "called" /\ gen.state = "created"
    /\ gen' = [gen EXCEPT !.state = "running"]
    /\ UNCHANGED <<mode, cpc, cmd, fcode, sent, resumes, tvars, rvars, qvars>>

\* The running generator executes its next statement; a yield hands the
\* message to the driver
StepGenerator ==
    /\ mode = "command" /\ cpc = "called" /\ gen.state = "running"
    /\ \E g \in {ExecStmt(fcode.body, gen)} :
          /\ gen' = g
          /\ sent' = IF g.state = "suspended" THEN Append(sent, g.cmd_dict) ELSE sent
    /\ UNCHANGED <<mode, cpc, cmd, fcode, resumes, tvars, rvars, qvars>>

\* The driver resumes the suspended generator with a response:
\* gen.send(response)
ResumeGenerator ==
    /\ mode = "command" /\ cpc = "called" /\ gen.state = "suspended"
    /\ \E response \in WireMaps(cmd.returns) \cup {<<>>} :
          gen' = [gen EXCEPT !.state = "running", !.json = response, !.ip = @ + 1]
    /\ resumes' = resumes + 1
    /\ UNCHANGED <<mode, cpc, cmd, fcode, sent, tvars, rvars, qvars>>

CommandNext ==
    \/ BuildCommand
    \/ EmitCommand
    \/ LoadCommand
    \/ CallCommand
    \/ StartGenerator
    \/ StepGenerator
    \/ ResumeGenerator

-----------------------------------------------------------------------------
(* Scenario "run": main generates the modules of two schema documents *)

\* main up to the loop over json_paths: the output directory is created
\* and cleared
StartRun ==
    /\ mode = "idle"
    /\ mode' = "run"
    /\ \E ds \in DocumentLists : schemas' = ds
    /\ rpc' = "parse"
    /\ di' = 1
    /\ UNCHANGED <<bi, ldomains, domains, wi, files, rerr, tvars, cvars, qvars>>

\* parse, up to its loop: the document is loaded and its version asserted
LoadDocument ==
    /\ mode = "run" /\ rpc = "parse"
    /\ IF VersionSupported(schemas[di].version)
       THEN rpc' = "build" /\ rerr' = rerr
       ELSE rpc' = "failed" /\ rerr' = "AssertionError"
    /\ bi' = 1
    /\ ldomains' = <<>>
    /\ UNCHANGED <<mode, schemas, di, domains, wi, files, tvars, cvars, qvars>>

\* One turn of the loop of parse: CdpDomain.from_json of the next domain
BuildDomain ==
    /\ mode = "run" /\ rpc = "build" /\ bi <= Len(schemas[di].domains)
    /\ \E d \in {CdpDomainFromJson(schemas[di].domains[bi])} :
          IF d.status = "ok"
          THEN ldomains' = Append(ldomains, d) /\ bi' = bi + 1
               /\ UNCHANGED <<rpc, rerr, qvars>>
          ELSE rpc' = "failed" /\ rerr' = d.status /\ UNCHANGED <<ldomains, bi, qvars>>
    /\ UNCHANGED <<mode, schemas, di, domains, wi, files, tvars, cvars, qvars>>

\* parse returns its list and main extends its own with it; main goes on
\* to the next document, or to the sort after the last
ExtendDomains ==
    /\ mode = "run" /\ rpc = "build" /\ bi > Len(schemas[di].domains)
    /\ domains' = domains \o ldomains
    /\ IF di < Len(schemas)
       THEN di' = di + 1 /\ rpc' = "parse"
       ELSE di' = di /\ rpc' = "sort"
    /\ UNCHANGED <<mode, schemas, bi, ldomains, wi, files, rerr, tvars, cvars, qvars>>

\* domains.sort(key=operator.attrgetter('domain'))
SortDomains ==
    /\ mode = "run" /\ rpc = "sort"
    /\ domains' = SortByDomain(domains)
    /\ rpc' = "write"
    /\ UNCHANGED <<mode, schemas, di, bi, ldomains, wi, files, rerr, tvars, cvars, qvars>>

\* "with module_path.open('w') as module_file": the file of the next
\* domain is created empty, before its code is generated
OpenModule ==
    /\ mode = "run" /\ rpc = "write" /\ wi <= Len(domains)
    /\ files' = DictSet(files, ModulePath(module(domains[wi])), EmptyFile)
    /\ rpc' = "emit"
    /\ UNCHANGED <<mode, schemas, di, bi, ldomains, domains, wi, rerr, tvars, cvars, qvars>>

\* module_file.write(domain.generate_code()): the code is generated and
\* written, or generate_code raises and the run ends
WriteModule ==
    /\ mode = "run" /\ rpc = "emit"
    /\ \E code \in {DomainGenerateCode(domains[wi])} :
          IF code.status = "ok"
          THEN /\ files' = DictSet(files, ModulePath(module(domains[wi])),
                                   WrittenFile(code))
               /\ wi' = wi + 1
               /\ rpc' = "write"
               /\ rerr' = rerr
          ELSE rpc' = "failed" /\ rerr' = code.status /\ UNCHANGED <<files, wi, qvars>>
    /\ domains' = [domains EXCEPT ![wi] = DomainAfterEmission(domains[wi])]
    /\ UNCHANGED <<mode, schemas, di, bi, ldomains, tvars, cvars, qvars>>

\* After the last module: py_typed_path.touch()
FinishRun ==
    /\ mode = "run" /\ rpc = "write" /\ wi > Len(domains)
    /\ files' = DictSet(files, PyTypedPath, EmptyFile)
    /\ rpc' = "done"
    /\ UNCHANGED <<mode, schemas, di, bi, ldomains, domains, wi, rerr, tvars, cvars, qvars>>

RunNext ==
    \/ StartRun
    \/ LoadDocument
    \/ BuildDomain
    \/ ExtendDomains
    \/ SortDomains
    \/ OpenModule
    \/ WriteModule
    \/ FinishRun

-----------------------------------------------------------------------------
(* Scenario "resolve": ref_to_python on one reference *)

\* The references of the schemas: with no separator, with one, with two,
\* and the empty string
RefsToResolve ==
    { <<"S">>, <<"T">>, <<"D", ".", "S">>, <<"d", "A", ".", "S">>,
      <<"B", ".", "T">>, BadRef, <<>> }

\* A property of a type or command of domain d holds the reference r
AskReference ==
    /\ mode = "idle"
    /\ mode' = "resolve"
    /\ \E r \in RefsToResolve : \E d \in Range(DomainNames[1]) :
          query' = [status |-> "ok", ref |-> r, domain |-> d]
    /\ UNCHANGED <<answer, tvars, cvars, rvars>>

\* ref_to_python(ref)
ResolveReference ==
    /\ mode = "resolve" /\ answer = Unset
    /\ answer' = ref_to_python(query.ref)
    /\ UNCHANGED <<mode, query, tvars, cvars, rvars>>

ResolveNext ==
    \/ AskReference
    \/ ResolveReference

-----------------------------------------------------------------------------
(* Specification *)

vars == <<mode, tvars, cvars, rvars, qvars>>

Init ==
    /\ mode = "idle"
    /\ tpc = "start"
    /\ ctype = Unset
    /\ ccode = Unset
    /\ inst = Unset
    /\ wire = Unset
    /\ back = Unset
    /\ cpc = "start"
    /\ cmd = Unset
    /\ fcode = Unset
    /\ gen = Unset
    /\ sent = <<>>
    /\ resumes = 0
    /\ rpc = "start"
    /\ schemas = <<>>
    /\ di = 0
    /\ bi = 0
    /\ ldomains = <<>>
    /\ domains = <<>>
    /\ wi = 1
    /\ files = <<>>
    /\ rerr = "ok"
    /\ query = Unset
    /\ answer = Unset

Next ==
    \/ TypeNext
    \/ CommandNext
    \/ RunNext
    \/ ResolveNext

Spec == Init /\ [][Next]_vars

-----------------------------------------------------------------------------
(* Properties of emitted classes *)

IsRequired(p) == ~p.optional
IsOptional(p) == p.optional

Names(props) == [i \in 1..Len(props) |-> props[i].name]
PyNames(props) == [i \in 1..Len(props) |-> py_name(props[i])]

RequiredFirst(props) == SelectSeq(props, IsRequired) \o SelectSeq(props, IsOptional)

ClassEmitted == mode = "type" /\ ccode.status = "ok" /\ ccode.kind = "class"

DeclaredFields == [i \in 1..Len(ccode.decls) |-> ccode.decls[i].field]
SerializedKeys == [i \in 1..Len(ccode.to_json) |-> ccode.to_json[i].key]

\* C4 (as stated): for every struct and every constructed instance x,
\* from_json(x.to_json()) is a value equal to x.
C4_RoundTripLaw ==
    (mode = "type" /\ tpc = "x_round") =>
        /\ back.status = "ok"
        /\ back.cls = inst.cls
        /\ back.fields = inst.fields

\* C5 (as stated): for every struct and every wire map m with the required
\* keys and any subset of the optional keys, from_json(m) succeeds and
\* from_json(m).to_json() is m.
C5_WireRoundTripLaw ==
    /\ (mode = "type" /\ tpc = "deserialized") => inst.status = "ok"
    /\ (mode = "type" /\ tpc = "m_round") =>
            back.status = "ok" /\ DictEq(back.d, wire.d)

\* The keys a serialization of the values in scope has written to d: the
\* key of a property is there exactly when the property is required or its
\* value is not None, no entry holds None, and no other key is there.
KeysWritten(props, scope, d) ==
    /\ \A i \in 1..Len(props) :
          HasKey(d, props[i].name)
          <=> \/ ~props[i].optional
              \/ DictGet(scope, py_name(props[i])) # NoneVal
    /\ \A i \in 1..Len(d) : d[i].v # NoneVal
    /\ Keys(d) \subseteq {props[i].name : i \in 1..Len(props)}

\* C6: serializing writes the wire key of an optional property only when
\* its value is not None, and always writes the key of a required one; an
\* absent value leaves no key and no None entry.  This holds of x.to_json()
\* of an emitted class and of the params dict of the message an emitted
\* command yields.
C6_OptionalKeyOmitted ==
    /\ (mode = "type" /\ tpc = "serialized") =>
            wire.status = "ok" /\ KeysWritten(ctype.properties, inst.fields, wire.d)
    /\ (mode = "command" /\ cpc = "called" /\ Len(sent) >= 1) =>
            KeysWritten(cmd.parameters, gen.scope, sent[1].params)

\* C6 witness: an instance with one optional field None and another optional
\* field set has been serialized; the map holds the key of the second and
\* not the key of the first.
C6_Witness ==
    /\ mode = "type" /\ tpc = "serialized" /\ wire.status = "ok"
    /\ \E i, j \in 1..Len(ctype.properties) :
          /\ ctype.properties[i].optional /\ ctype.properties[j].optional
          /\ DictGet(inst.fields, py_name(ctype.properties[i])) = NoneVal
          /\ DictGet(inst.fields, py_name(ctype.properties[j])) # NoneVal
          /\ ~HasKey(wire.d, ctype.properties[i].name)
          /\ HasKey(wire.d, ctype.properties[j].name)
    /\ \E i \in 1..Len(ctype.properties) : ~ctype.properties[i].optional

\* C7 (as stated): deserializing a wire map in which an optional property
\* is absent does not fail and gives None for it; when the property is
\* present the value is the one the non-optional path gives.
C7_OptionalDeserialize ==
    (mode = "type" /\ tpc = "deserialized") =>
        /\ inst.status = "ok"
        /\ \A i \in 1..Len(ctype.properties) :
              ctype.properties[i].optional =>
                 DictGet(inst.fields, py_name(ctype.properties[i])) =
                    IF HasKey(wire.d, ctype.properties[i].name)
                    THEN EvalExpr(generate_from_json(
                            [ctype.properties[i] EXCEPT !.optional = FALSE]), wire.d).v
                    ELSE NoneVal

\* C8: the declarations of an emitted class are the required properties in
\* schema order, then the optional properties in schema order; no field
\* without a default follows a field with one.
C8_DeclarationOrder ==
    ClassEmitted =>
        /\ DeclaredFields = PyNames(RequiredFirst(ctype.properties))
        /\ \A i, j \in 1..Len(ccode.decls) :
              (i < j /\ ccode.decls[i].default) => ccode.decls[j].default

\* C8 witness: [A(req), B(opt), C(req), D(opt)] is declared as [A, C, B, D]
C8_Witness ==
    /\ ClassEmitted
    /\ [i \in 1..Len(ctype.properties) |-> ctype.properties[i].optional]
            = <<FALSE, TRUE, FALSE, TRUE>>
    /\ DeclaredFields = <<PyNames(ctype.properties)[1], PyNames(ctype.properties)[3],
                          PyNames(ctype.properties)[2], PyNames(ctype.properties)[4]>>

\* C9 (as stated): the to_json body writes the properties in schema order.
C9_SerializeSchemaOrder ==
    ClassEmitted => SerializedKeys = Names(ctype.properties)

\* C9 (amended): the to_json body writes the properties in the order of the
\* declarations, required first and then optional, each group in schema
\* order; the keys of a serialized map appear in that order.
C9_SerializeDeclarationOrder ==
    /\ ClassEmitted => SerializedKeys = Names(RequiredFirst(ctype.properties))
    /\ (mode = "type" /\ tpc = "serialized" /\ wire.status = "ok") =>
            \A i, j \in 1..Len(wire.d) : i < j =>
                \E a, b \in 1..Len(SerializedKeys) :
                    a < b /\ SerializedKeys[a] = wire.d[i].k
                          /\ SerializedKeys[b] = wire.d[j].k

\* C9 witness: [A(req), B(opt), C(req), D(opt)] with every value present
\* is serialized with the keys in the order [A, C, B, D]
C9_Witness ==
    /\ mode = "type" /\ tpc = "serialized" /\ wire.status = "ok"
    /\ [i \in 1..Len(ctype.properties) |-> ctype.properties[i].optional]
            = <<FALSE, TRUE, FALSE, TRUE>>
    /\ KeyOrder(wire.d) = <<Names(ctype.properties)[1], Names(ctype.properties)[3],
                            Names(ctype.properties)[2], Names(ctype.properties)[4]>>

\* A property that declares an array has an item descriptor with a
\* primitive type or a reference
UsableItems(p) ==
    p.type = "array" =>
        (p.items # <<>> /\ (p.items[1].type # None \/ p.items[1].ref # <<>>))

\* The conversion the serialization of property p applies, by value-type
DispatchOf(p) ==
    IF IsRef(p) THEN (IF IsList(p) THEN "list_to_json" ELSE "to_json") ELSE "raw"

\* The wire value of the in-memory value val of property p
WireOf(p, val) ==
    IF DispatchOf(p) = "to_json" THEN ValueToJson(val).v
    ELSE IF DispatchOf(p) = "list_to_json" THEN ListToJson(val).v
    ELSE val

\* C16 (as stated): a struct whose properties are references, arrays of
\* references, arrays of primitives or primitives is emitted; its to_json
\* writes a reference as its to_json(), an array of references as the
\* to_json() of every element, and an array of primitives or a primitive as
\* the value itself.
C16_SerializeDispatch ==
    /\ (mode = "type" /\ ctype.status = "ok" /\ ccode.status # "unset"
            /\ ctype.enum = <<>> /\ ctype.properties # <<>>
            /\ \A i \in 1..Len(ctype.properties) : UsableItems(ctype.properties[i])) =>
            /\ ccode.status = "ok"
            /\ \A i \in 1..Len(ctype.properties) :
                  \E j \in 1..Len(ccode.to_json) :
                      /\ ccode.to_json[j].key = ctype.properties[i].name
                      /\ ccode.to_json[j].conv = DispatchOf(ctype.properties[i])
    /\ (mode = "type" /\ tpc = "serialized") =>
            /\ wire.status = "ok"
            /\ \A i \in 1..Len(ctype.properties) :
                  HasKey(wire.d, ctype.properties[i].name) =>
                      DictGet(wire.d, ctype.properties[i].name)
                        = WireOf(ctype.properties[i],
                                 DictGet(inst.fields, py_name(ctype.properties[i])))

\* C14: for every emitted enum, m.to_json() is the wire string of the
\* variant that m was declared for, verbatim; E.from_json(s) is the member
\* declared for the variant s when s is a variant of the enum, and raises
\* ValueError, giving no member, when it is not.
C14_EnumExactMatch ==
    /\ (mode = "type" /\ tpc = "member_serialized") =>
            /\ wire.status = "ok"
            /\ wire.v.t = "str"
            /\ wire.v.s \in Range(ctype.enum)
            /\ inst.v.name = UpperAll(Underscore(wire.v.s))
    /\ (mode = "type" /\ tpc = "string_deserialized") =>
            IF wire.v.s \in Range(ctype.enum)
            THEN /\ inst.status = "ok"
                 /\ inst.v = Member(ctype.id, UpperAll(Underscore(wire.v.s)))
            ELSE inst.status = "ValueError"

\* C14 witness: a string that differs from a variant of the enum only in
\* its case has been deserialized, and the lookup raised ValueError.
C14_Witness ==
    /\ mode = "type" /\ tpc = "string_deserialized"
    /\ wire.v.s \notin Range(ctype.enum)
    /\ \E v \in Range(ctype.enum) : MapChars(v, FALSE) = MapChars(wire.v.s, FALSE)
    /\ inst.status = "ValueError"

\* C23 (as stated): in the from_json of an emitted class the keyword that
\* carries a property is the identifier its declaration gives the field,
\* the naming form of the schema name, and the wire name is the key the
\* value is looked up by.
C23_ConstructorKeywords ==
    ClassEmitted =>
        \A i \in 1..Len(ccode.from_json) :
            /\ ccode.from_json[i].kw = py_name(ctype.properties[i])
            /\ \E j \in 1..Len(ccode.decls) :
                    ccode.decls[j].field = ccode.from_json[i].kw
            /\ ccode.from_json[i].expr.key = ctype.properties[i].name

-----------------------------------------------------------------------------
(* Properties of emitted commands *)

CommandCalled == mode = "command" /\ cpc = "called"

\* C1: one call of an emitted command is one yield and one resume.  The
\* generator yields at most one message, and the message names the
\* command; it is suspended only with that one message out and no resume
\* yet; it ends only after one yield and one resume; once resumed, its
\* next statement is the return, and a return gives the result.
C1_OneYieldOneResume ==
    CommandCalled =>
        /\ Len(sent) <= 1 /\ resumes <= Len(sent)
        /\ \A i \in 1..Len(sent) : sent[i].method = cmd.domain \o <<".">> \o cmd.name
        /\ gen.state = "suspended" => (Len(sent) = 1 /\ resumes = 0)
        /\ gen.state \in {"returned", "raised"} => (Len(sent) = 1 /\ resumes = 1)
        /\ (gen.state = "running" /\ resumes = 1) =>
                (gen.ip <= Len(fcode.body) /\ fcode.body[gen.ip].op = "return")
        /\ gen.state = "returned" => gen.result.status = "ok"
        /\ gen.state = "raised" => (gen.json = <<>> /\ ~cmd.returns[1].optional)

\* C1 witness: a call has yielded its one message, has been resumed once
\* and has returned its result.
C1_Witness ==
    /\ CommandCalled
    /\ gen.state = "returned" /\ gen.result.status = "ok"
    /\ Len(sent) = 1 /\ resumes = 1
    /\ gen.result.v # NoneVal

\* C10 (as stated): a command with zero returns is emitted, and a call of
\* it that has been resumed ends with no result value.
C10_ZeroReturnsEmitted ==
    (mode = "command" /\ cmd.status = "ok" /\ fcode.status # "unset") =>
        (Len(cmd.returns) = 0 =>
            /\ fcode.status = "ok"
            /\ (cpc = "called" /\ gen.state = "returned") => gen.result.v = NoneVal)

\* A command whose emission depends on its returns alone: it has no
\* parameters, and its returns are documented
ReturnsOnly ==
    /\ mode = "command" /\ cmd.status = "ok" /\ fcode.status # "unset"
    /\ Len(cmd.parameters) = 0
    /\ \A i \in 1..Len(cmd.returns) : cmd.returns[i].description # None

\* C11 (as stated): a command with exactly one return that is a primitive,
\* an array of primitives or an array of references is emitted, and the
\* result of a call is the deserialized value of that field of the response.
C11_SingleReturnResult ==
    (ReturnsOnly /\ Len(cmd.returns) = 1
                 /\ (IsList(cmd.returns[1]) \/ ~IsRef(cmd.returns[1]))) =>
        /\ fcode.status = "ok"
        /\ (cpc = "called" /\ gen.state = "returned") =>
                gen.result = EvalExpr(generate_from_json(cmd.returns[1]), gen.json)

\* C12 (as stated): a command with more than one return is emitted, and the
\* result of a call is a record keyed by the wire names of the returns: every
\* required return, and an optional return when the response holds its key.
C12_SeveralReturnsRecord ==
    (ReturnsOnly /\ Len(cmd.returns) > 1) =>
        /\ fcode.status = "ok"
        /\ (cpc = "called" /\ gen.state = "returned") =>
                /\ gen.result.status = "ok"
                /\ gen.result.v.t = "dict"
                /\ \A i \in 1..Len(cmd.returns) :
                      HasKey(gen.result.v.d, cmd.returns[i].name)
                      <=> \/ ~cmd.returns[i].optional
                          \/ HasKey(gen.json, cmd.returns[i].name)

\* C13 (as stated): the message a call yields names '<Domain>.<command>',
\* its params map is the serialization of the parameters, and it has no
\* params entry at all when the command has no parameters.
C13_MessageShape ==
    (CommandCalled /\ Len(sent) >= 1) =>
        /\ sent[1].method = cmd.domain \o <<".">> \o cmd.name
        /\ KeysWritten(cmd.parameters, gen.scope, sent[1].params)
        /\ sent[1].has_params <=> Len(cmd.parameters) > 0

\* C17 (as stated): the parameters of an emitted command are declared with
\* the required ones first and then the optional ones, each group in schema
\* order, so that no parameter without a default follows one with a default.
C17_ParameterOrder ==
    (mode = "command" /\ cmd.status = "ok" /\ fcode.status = "ok") =>
        /\ [i \in 1..Len(fcode.decls) |-> fcode.decls[i].field]
                = PyNames(RequiredFirst(cmd.parameters))
        /\ ValidSignature(fcode.decls)

-----------------------------------------------------------------------------
(* Properties of a generation run *)

\* The names of the domains of the documents before document k
DomainsBefore(k) ==
    Flatten([j \in 1..(k - 1) |->
                [i \in 1..Len(schemas[j].domains) |-> schemas[j].domains[i].domain]])

\* The output unit of the domain named name has been produced
Produced(name) ==
    /\ HasKey(files, ModulePath(Underscore(name)))
    /\ DictGet(files, ModulePath(Underscore(name))).written

\* C2 (as stated): a run that completes has produced the unit of every
\* domain of the input; a run that fails has not produced the units of
\* some domains while those of others are missing.
C2_NoPartialSuccess ==
    /\ (mode = "run" /\ rpc = "done") =>
            \A name \in Range(DomainsBefore(Len(schemas) + 1)) : Produced(name)
    /\ (mode = "run" /\ rpc = "failed") =>
            ~ /\ \E name \in Range(DomainsBefore(Len(schemas) + 1)) : Produced(name)
              /\ \E name \in Range(DomainsBefore(Len(schemas) + 1)) : ~Produced(name)

\* C3 (as stated): when the version mismatch is raised, no Domain of any
\* document has been built.
C3_NoDomainBuiltAtMismatch ==
    (mode = "run" /\ rerr = "AssertionError") =>
        (Len(domains) = 0 /\ Len(ldomains) = 0)

\* C3 (amended): a document whose version is not the supported one ends the
\* run before any Domain of that document is built and before any output
\* file exists; the Domains of the documents read before it, all of the
\* supported version, have been built by then.  A Domain is built, and a
\* file exists, only for documents of the supported version.
C3_NoDomainOfDocumentBuilt ==
    /\ (mode = "run" /\ rerr = "AssertionError") =>
            /\ rpc = "failed"
            /\ schemas[di].version # SupportedVersion
            /\ ldomains = <<>>
            /\ files = <<>>
            /\ [i \in 1..Len(domains) |-> domains[i].domain] = DomainsBefore(di)
            /\ \A k \in 1..(di - 1) : schemas[k].version = SupportedVersion
    /\ (mode = "run" /\ rpc = "build") => schemas[di].version = SupportedVersion
    /\ (mode = "run" /\ files # <<>>) =>
            \A k \in 1..Len(schemas) : schemas[k].version = SupportedVersion

\* C3 witness: the second document has a version that is not supported; the
\* mismatch is raised with the Domains of the first document built.
C3_Witness ==
    /\ mode = "run" /\ rerr = "AssertionError"
    /\ di = 2
    /\ Len(domains) >= 1
    /\ Len(schemas[2].domains) >= 1

\* The raw domain named name of the documents of the run
RawDomainNamed(name) ==
    CHOOSE raw \in UNION {Range(schemas[k].domains) : k \in 1..Len(schemas)} :
        raw.domain = name

\* The list raw[field] of a raw domain, empty when the field is absent
Declared(raw, field) == IF field \in DOMAIN raw THEN raw[field] ELSE <<>>

\* The items of the text unit are those raw declares: its types, then its
\* commands, then its events, each group in the order of the schema
UnitOf(unit, raw) ==
    /\ unit.domain = raw.domain
    /\ unit.experimental = (IF "experimental" \in DOMAIN raw
                            THEN raw.experimental ELSE FALSE)
    /\ Len(unit.items) = Len(Declared(raw, "types")) + Len(Declared(raw, "commands"))
                            + Len(Declared(raw, "events"))
    /\ \A i \in 1..Len(Declared(raw, "types")) :
          /\ i <= Len(unit.items)
          /\ unit.items[i].kind \in {"class", "enum", "primitive"}
          /\ unit.items[i].id = raw.types[i].id
    /\ \A i \in 1..Len(Declared(raw, "commands")) :
          /\ Len(Declared(raw, "types")) + i <= Len(unit.items)
          /\ unit.items[Len(Declared(raw, "types")) + i].kind = "command"
          /\ unit.items[Len(Declared(raw, "types")) + i].name
                = Underscore(raw.commands[i].name)
    /\ \A i \in 1..Len(Declared(raw, "events")) :
          /\ Len(Declared(raw, "types")) + Len(Declared(raw, "commands")) + i
                <= Len(unit.items)
          /\ unit.items[Len(Declared(raw, "types")) + Len(Declared(raw, "commands"))
                        + i].kind = "event"

\* C15 (as stated): the unit written for a domain carries the domain name
\* and its experimental flag and holds the text of every type, then of
\* every command, then of every event the schema declares for the domain,
\* each group in schema order, none missing.
C15_UnitGroups ==
    mode = "run" =>
        \A i \in 1..Len(domains) :
            Produced(domains[i].domain) =>
                UnitOf(DictGet(files, ModulePath(module(domains[i]))).text[1],
                       RawDomainNamed(domains[i].domain))

\* The records of a raw domain have their required fields: a type its id
\* and type, a command its name, a property its name
RequiredFields(raw) ==
    /\ \A i \in 1..Len(Declared(raw, "types")) :
          /\ {"id", "type"} \subseteq DOMAIN raw.types[i]
          /\ \A j \in 1..Len(Declared(raw.types[i], "properties")) :
                "name" \in DOMAIN raw.types[i].properties[j]
    /\ \A i \in 1..Len(Declared(raw, "commands")) :
          /\ "name" \in DOMAIN raw.commands[i]
          /\ \A j \in 1..Len(Declared(raw.commands[i], "parameters")) :
                "name" \in DOMAIN raw.commands[i].parameters[j]

\* C18 (as stated): the IR is built only of records that have their
\* required fields, and text is written only when every record of the input
\* has them; no built type or command holds a property that declares an
\* array without a usable item descriptor.
C18_MalformedNeverBuilt ==
    /\ mode = "run" =>
            /\ \A i \in 1..Len(domains) :
                    RequiredFields(RawDomainNamed(domains[i].domain))
            /\ \A i \in 1..Len(ldomains) :
                    RequiredFields(RawDomainNamed(ldomains[i].domain))
            /\ files # <<>> =>
                    \A k \in 1..Len(schemas) : \A i \in 1..Len(schemas[k].domains) :
                        RequiredFields(schemas[k].domains[i])
    /\ (mode = "type" /\ ctype.status = "ok") =>
            \A i \in 1..Len(ctype.properties) : UsableItems(ctype.properties[i])
    /\ (mode = "command" /\ cmd.status = "ok") =>
            /\ \A i \in 1..Len(cmd.parameters) : UsableItems(cmd.parameters[i])
            /\ \A i \in 1..Len(cmd.returns) : UsableItems(cmd.returns[i])

\* The built domain d holds an event for every event record of raw, with
\* its name, in the order of the schema
EventsOf(d, raw) ==
    /\ Len(d.events) = Len(Declared(raw, "events"))
    /\ \A j \in 1..Len(d.events) :
          /\ j <= Len(Declared(raw, "events"))
          /\ d.events[j].name = raw.events[j].name
          /\ Len(d.events[j].parameters) = Len(Declared(raw.events[j], "parameters"))

\* C21 (as stated): every built domain has as many events as its schema
\* declares, each with the name and the parameters of its record, in the
\* order of the schema.
C21_EventsBuilt ==
    mode = "run" =>
        /\ \A i \in 1..Len(domains) :
                EventsOf(domains[i], RawDomainNamed(domains[i].domain))
        /\ \A i \in 1..Len(ldomains) :
                EventsOf(ldomains[i], RawDomainNamed(ldomains[i].domain))

\* C22: emission leaves the IR as it was: the step that emits a type, a
\* command or a domain does not change that entity, in particular the
\* properties of a struct keep the order of the schema although the
\* declarations are emitted required first, and emitting the type again
\* gives the text that was emitted.
C22_EmissionKeepsIR ==
    /\ [][/\ EmitType => ctype' = ctype
          /\ EmitCommand => cmd' = cmd
          /\ WriteModule => domains' = domains]_vars
    /\ []((mode = "type" /\ ccode.status # "unset") => ccode = TypeGenerateCode(ctype))

\* C22 witness: a struct whose schema order is not required first has been
\* emitted with its declarations required first, and the IR still holds the
\* properties optional first
C22_Witness ==
    /\ ClassEmitted
    /\ ctype.properties # RequiredFirst(ctype.properties)
    /\ ctype.properties[1].optional
    /\ ~ccode.decls[1].default

\* The paths of the module files of the run, in the order of their creation
ModulesOpened == SelectSeq(KeyOrder(files), LAMBDA path : path # PyTypedPath)

\* The name of the domain of the input whose module file is path
DomainOfPath(path) ==
    CHOOSE name \in Range(DomainsBefore(Len(schemas) + 1)) :
        ModulePath(Underscore(name)) = path

\* C24: when the first module file exists, every document of the run has
\* been loaded with the supported version and every domain of every
\* document has been built; the module files are created in ascending order
\* of domain name, none skipped, whatever the documents the domains come
\* from and whatever dependencies they declare.
C24_ParseAllThenWriteSorted ==
    (mode = "run" /\ files # <<>>) =>
        /\ di = Len(schemas)
        /\ \A k \in 1..Len(schemas) : schemas[k].version = SupportedVersion
        /\ Len(domains) = Len(DomainsBefore(Len(schemas) + 1))
        /\ {domains[i].domain : i \in 1..Len(domains)}
                = Range(DomainsBefore(Len(schemas) + 1))
        /\ \A i \in 1..Len(ModulesOpened) :
                ModulesOpened[i] \in
                    {ModulePath(Underscore(name)) :
                        name \in Range(DomainsBefore(Len(schemas) + 1))}
        /\ \A i, j \in 1..Len(ModulesOpened) : i < j =>
                StrLess(DomainOfPath(ModulesOpened[i]), DomainOfPath(ModulesOpened[j]))
        /\ \A name \in Range(DomainsBefore(Len(schemas) + 1)) :
                ModulePath(Underscore(name)) \notin Range(ModulesOpened) =>
                    \A i \in 1..Len(ModulesOpened) :
                        StrLess(DomainOfPath(ModulesOpened[i]), name)

\* C24 witness: a run is done in which the first document holds 'B' and
\* 'dA', each declaring the other as its dependency, and the second holds
\* 'Ab': the modules were written in the order ab, b, d_a.
C24_Witness ==
    /\ mode = "run" /\ rpc = "done"
    /\ Len(schemas[1].domains) = 2 /\ Len(schemas[2].domains) = 1
    /\ domains[2].dependencies = << <<"d", "A">> >>
    /\ domains[3].dependencies = << <<"B">> >>
    /\ ModulesOpened = <<ModulePath(<<"a", "b">>), ModulePath(<<"b">>),
                         ModulePath(<<"d", "_", "a">>)>>

------------------------------------------------------------------------------
(* Properties of reference resolution *)

\* The identifier of the type named t of the domain named d
Qualified(d, t) == Underscore(d) \o <<".">> \o t

\* C19 (as stated): a resolved reference is domain-qualified: 'Dom.Type'
\* resolves to the naming form of Dom with Type verbatim, and a reference
\* with no separator resolves to the naming form of the domain that holds it
\* with the type verbatim, so that same-named types of different domains
\* have different identifiers.
C19_CanonicalReference ==
    (mode = "resolve" /\ answer.status = "ok" /\ query.ref # <<>>) =>
        answer.name =
            IF CountDots(query.ref) = 0
            THEN Qualified(query.domain, query.ref)
            ELSE Qualified(SubSeq(query.ref, 1, DotAt(query.ref) - 1),
                           SubSeq(query.ref, DotAt(query.ref) + 1, Len(query.ref)))

\* C20 (as stated): resolving an empty reference or one with more than one
\* separator fails and returns no reference.
C20_MalformedReferenceFails ==
    (mode = "resolve" /\ answer # Unset
        /\ (query.ref = <<>> \/ CountDots(query.ref) > 1)) =>
        answer.status # "ok"

====
